---- MODULE Spec2Model ----
(***************************************************************************)
(* fastpay: the execution engine (crates/vm), the account store            *)
(* (crates/state), the transaction model (crates/tx), the wallet's signing *)
(* helper (crates/wallet) and the block builder (crates/block_builder), as *)
(* a state machine.                                                        *)
(*                                                                         *)
(* Idealisations, stated once:                                             *)
(*  - u64 is scaled down to 0..U64Max; arithmetic that the code leaves     *)
(*    unchecked overflows at U64Max exactly as u64 overflows at 2^64-1.    *)
(*  - keccak-256 is collision free: a digest is a tagged copy of its       *)
(*    pre-image.                                                           *)
(*  - secp256k1 recovery of a signature over another message yields the    *)
(*    address of an unrelated public key, which is nobody's address.       *)
(***************************************************************************)
EXTENDS Integers, Sequences, FiniteSets, TLC

(***************************************************************************)
(* Bounds of the model.                                                    *)
(***************************************************************************)
\* stands for u64::MAX: the largest balance / amount a u64 holds
U64Max == 1

\* the longest chain built: create_block is called at most MaxBlocks times
MaxBlocks == 3

\* the clock reads 0..MaxClock seconds since the epoch
MaxClock == 1

\* the secret keys of the wallets of the model
Secrets == {101, 102}

\* the addresses of the model: 1 and 2 are those of the two wallets, 3 is an
\* address whose key none of the wallets holds
Addr == {1, 2, 3}

\* the address recovered from a signature over some other message: that of
\* a public key nobody holds
Unrelated == 0

(***************************************************************************)
(* Option<T> / Result<T, E> with a unit error: None is the empty sequence, *)
(* Some(x) the one-element sequence.                                       *)
(***************************************************************************)
None == <<>>
Some(x) == <<x>>
is_none(o) == o = None
unwrap(o) == o[1]

(***************************************************************************)
(* crates/state: Account and MemoryState                                   *)
(***************************************************************************)
Account(address, balance) == [address |-> address, balance |-> balance]

\* MemoryState::new
MemoryStateNew == [a \in {} |-> Account(a, 0)]

\* MemoryState::get_account: HashMap::get(..).cloned()
get_account(store, address) ==
    IF address \in DOMAIN store THEN Some(store[address]) ELSE None

\* MemoryState::update_account: HashMap::insert, always Ok(())
\* an insert that empties the map first
update_account_alone(store, address, account) ==
    [a \in {address} |-> account]

update_account(store, address, account) ==
    [a \in DOMAIN store \cup {address} |->
        IF a = address THEN account ELSE store[a]]

(***************************************************************************)
(* crates/tx: Tx, to_bytes, tx_hash                                        *)
(***************************************************************************)
AddressLen == 20
AmountLen == 8

Tx(from, to, amount, signature) ==
    [from |-> from, to |-> to, amount |-> amount, signature |-> signature]

\* Address::to_vec: the 20 raw bytes of the address
to_vec(address) == [i \in 1..AddressLen |-> address]

\* u64::to_be_bytes: 8 bytes, most significant first
RECURSIVE be_bytes(_, _)
be_bytes(n, len) ==
    IF len = 0 THEN <<>> ELSE Append(be_bytes(n \div 256, len - 1), n % 256)

\* u64::to_le_bytes: least significant first
RECURSIVE le_bytes(_, _)
le_bytes(n, len) ==
    IF len = 0 THEN <<>> ELSE <<n % 256>> \o le_bytes(n \div 256, len - 1)

to_le_bytes(amount) == le_bytes(amount, AmountLen)

to_be_bytes(amount) == be_bytes(amount, AmountLen)

\* an encoding that appends the signature field
to_bytes_signed(tx) ==
    to_vec(tx.from) \o to_vec(tx.to) \o to_be_bytes(tx.amount) \o tx.signature

\* Tx::to_bytes: from || to || amount, the signature left out
to_bytes(tx) == to_vec(tx.from) \o to_vec(tx.to) \o to_be_bytes(tx.amount)

Keccak256(bytes) == [keccak |-> bytes]

\* Tx::tx_hash
tx_hash(tx) == Keccak256(to_bytes(tx))

(***************************************************************************)
(* crates/wallet and the signing library                                   *)
(***************************************************************************)
\* LocalSigner::address: the address derived from the key
address(secret) == secret - 100

\* the personal-message digest both sign_message_sync and
\* recover_address_from_msg compute from the message
eip191_hash_message(message) == [prefix |-> "Ethereum Signed Message", message |-> message]

\* Wallet::sign_message
sign_message(secret, message) ==
    [signer |-> secret, prehash |-> eip191_hash_message(message)]

\* Wallet::sign_transaction
sign_transaction(secret, transaction) == sign_message(secret, tx_hash(transaction))

\* 65 bytes that are no signature of anything (recovery errors)
NoSigner == 0
MalformedSignature == [signer |-> NoSigner, prehash |-> eip191_hash_message(Keccak256(<<>>))]

\* a recovery that does not bind the signature to the message
recover_ignoring_message(signature, message) ==
    IF signature.signer = NoSigner THEN None ELSE Some(address(signature.signer))

\* PrimitiveSignature::recover_address_from_msg: Ok(address) or Err
recover_address_from_msg(signature, message) ==
    IF signature.signer = NoSigner THEN None
    ELSE IF signature.prehash = eip191_hash_message(message)
         THEN Some(address(signature.signer))
         ELSE Some(Unrelated)

(***************************************************************************)
(* crates/vm: VMError reasons, as the words of the message                 *)
(***************************************************************************)
NoSignatureMsg == <<"Transaction", "has", "no", "signature">>
InvalidSignatureMsg == <<"Transaction", "signature", "is", "invalid">>
SenderMissingMsg == <<"Transaction", "sender", "account", "does", "not", "exist">>
NotEnoughBalanceMsg ==
    <<"Transaction", "sender", "account", "does", "not", "have", "enough", "balance">>
OverflowPanicMsg == <<"attempt", "to", "add", "with", "overflow">>

\* Result<(), VMError>, and the panic that unwinds out of execute
Ok == [tag |-> "Ok", reason |-> <<>>]
InvalidTransaction(reason) == [tag |-> "InvalidTransaction", reason |-> reason]
Panic(reason) == [tag |-> "panic", reason |-> reason]

\* str::contains, on whole words
contains(msg, fragment) ==
    \E i \in 0..(Len(msg) - Len(fragment)) :
        SubSeq(msg, i + 1, i + Len(fragment)) = fragment

(***************************************************************************)
(* The backend behind Box<dyn State>.  env.debit_fails / env.credit_fails  *)
(* say whether the backend rejects the write (no backend of the            *)
(* repository does: MemoryState never fails); env.overflow_checks is the   *)
(* build profile (debug: overflow panics, release: it wraps).              *)
(***************************************************************************)
MemoryEnv(checks) ==
    [debit_fails |-> FALSE, credit_fails |-> FALSE, overflow_checks |-> checks]

\* State::update_account of a backend that may reject the write: a rejected
\* write stores nothing
state_update_account(store, addr, account, fails) ==
    IF fails THEN [state |-> store, is_err |-> TRUE]
    ELSE [state |-> update_account(store, addr, account), is_err |-> FALSE]

Outcome(store, result) == [state |-> store, result |-> result]

\* to_balance + amount on u64
checked_sum(to_balance, amount) == to_balance + amount
wrapping_sum(to_balance, amount) == (to_balance + amount) % (U64Max + 1)

\* VM::execute, lines 77-102: the credit
credit(store, to, amount, env) ==
    LET to_account_exists == is_none(get_account(store, to)) IN
    IF to_account_exists
    THEN LET update_result ==
                 state_update_account(store, to, Account(to, amount), env.credit_fails)
         IN  IF update_result.is_err
             THEN Outcome(update_result.state, InvalidTransaction(NotEnoughBalanceMsg))
             ELSE Outcome(update_result.state, Ok)
    ELSE LET to_balance == unwrap(get_account(store, to)).balance IN
         IF checked_sum(to_balance, amount) > U64Max /\ env.overflow_checks
         THEN Outcome(store, Panic(OverflowPanicMsg))
         ELSE LET update_result ==
                      state_update_account(store, to,
                          Account(to, wrapping_sum(to_balance, amount)),
                          env.credit_fails)
              IN  IF update_result.is_err
                  THEN Outcome(update_result.state,
                               InvalidTransaction(NotEnoughBalanceMsg))
                  ELSE Outcome(update_result.state, Ok)

\* a transfer that credits the recipient and never writes the sender's debit
debit_unwritten(store, from, from_balance, to, amount, env) ==
    credit(store, to, amount, env)

\* a transfer that credits first and then writes the sender's debit, computed
\* from the balance read before the credit
debit_after_credit(store, from, from_balance, to, amount, env) ==
    LET credited == credit(store, to, amount, env) IN
    IF credited.result # Ok THEN credited
    ELSE Outcome(update_account(credited.state, from,
                                Account(from, from_balance - amount)), Ok)

\* VM::execute, lines 67-75: the debit, then the credit
debit(store, from, from_balance, to, amount, env) ==
    LET update_result ==
            state_update_account(store, from, Account(from, from_balance - amount),
                                 env.debit_fails)
    IN  IF update_result.is_err
        THEN Outcome(update_result.state, InvalidTransaction(NotEnoughBalanceMsg))
        ELSE credit(update_result.state, to, amount, env)

\* a balance check that also refuses to spend the whole balance
check_balance_strict(from_balance, amount) == from_balance <= amount

\* VM::execute, line 61: the sender cannot pay
check_balance(from_balance, amount) == from_balance < amount

\* a sender check that writes the debit before it checks the balance
check_sender_debits_first(store, tx, env) ==
    LET from_account == get_account(store, tx.from) IN
    IF is_none(from_account)
    THEN Outcome(store, InvalidTransaction(SenderMissingMsg))
    ELSE LET from_balance == unwrap(from_account).balance
             debited == update_account(store, tx.from,
                            Account(tx.from, (from_balance - tx.amount) % (U64Max + 1)))
         IN  IF check_balance(from_balance, tx.amount)
             THEN Outcome(debited, InvalidTransaction(NotEnoughBalanceMsg))
             ELSE debit(store, tx.from, from_balance, tx.to, tx.amount, env)

\* VM::execute, lines 50-65: the sender's account and balance

check_sender(store, tx, env) ==
    LET from_account == get_account(store, tx.from) IN
    IF is_none(from_account)
    THEN Outcome(store, InvalidTransaction(SenderMissingMsg))
    ELSE LET from_balance == unwrap(from_account).balance IN
         IF check_balance(from_balance, tx.amount)
         THEN Outcome(store, InvalidTransaction(NotEnoughBalanceMsg))
         ELSE debit(store, tx.from, from_balance, tx.to, tx.amount, env)

\* an engine that looks the sender up before it looks at the signature
execute_sender_first(store, tx, env) ==
    IF is_none(get_account(store, tx.from))
    THEN Outcome(store, InvalidTransaction(SenderMissingMsg))
    ELSE IF is_none(tx.signature)
    THEN Outcome(store, InvalidTransaction(NoSignatureMsg))
    ELSE LET signature == unwrap(tx.signature)
             recovered_address == recover_address_from_msg(signature, tx_hash(tx))
         IN  IF is_none(recovered_address)
             THEN Outcome(store, InvalidTransaction(InvalidSignatureMsg))
             ELSE IF unwrap(recovered_address) # tx.from
                  THEN Outcome(store, InvalidTransaction(InvalidSignatureMsg))
                  ELSE check_sender(store, tx, env)

\* VM::execute, lines 18-48: the signature
execute(store, tx, env) ==
    IF is_none(tx.signature)
    THEN Outcome(store, InvalidTransaction(NoSignatureMsg))
    ELSE LET signature == unwrap(tx.signature)
             recovered_address == recover_address_from_msg(signature, tx_hash(tx))
         IN  IF is_none(recovered_address)
             THEN Outcome(store, InvalidTransaction(InvalidSignatureMsg))
             ELSE IF unwrap(recovered_address) # tx.from
                  THEN Outcome(store, InvalidTransaction(InvalidSignatureMsg))
                  ELSE check_sender(store, tx, env)

(***************************************************************************)
(* crates/block_builder: Block and the steps of BlockBuilder               *)
(***************************************************************************)
NumberLen == 32
GasLimit == 30000000
BaseFeePerGas == 1000000000

\* B256::ZERO: 32 zero bytes, the digest of nothing
B256Zero == [zero |-> TRUE]

\* B256::as_slice: the 32 bytes of a digest, kept as one piece
as_slice(hash) == <<hash>>

\* a loop that feeds the hasher each transaction's signature as well
RECURSIVE tx_hashes_signed(_)
tx_hashes_signed(transactions) ==
    IF transactions = <<>> THEN <<>>
    ELSE as_slice(Keccak256(to_bytes_signed(Head(transactions))))
            \o tx_hashes_signed(Tail(transactions))

\* the bytes the loop over the transactions feeds the hasher
RECURSIVE tx_hashes(_)
tx_hashes(transactions) ==
    IF transactions = <<>> THEN <<>>
    ELSE as_slice(tx_hash(Head(transactions))) \o tx_hashes(Tail(transactions))

\* the bytes Block::new hashes: number || parent_hash || timestamp || miner ||
\* the hash of each transaction
block_preimage(number, parent_hash, timestamp, transactions, miner) ==
    be_bytes(number, NumberLen) \o as_slice(parent_hash) \o to_be_bytes(timestamp)
        \o to_vec(miner) \o tx_hashes(transactions)

\* a constructor that leaves the unsigned transactions out
BlockNewOfSigned(number, parent_hash, timestamp, transactions, miner) ==
    LET signed == SelectSeq(transactions, LAMBDA tx : tx.signature # None)
    IN  [number |-> number,
         hash |-> Keccak256(block_preimage(number, parent_hash, timestamp,
                                           signed, miner)),
         parent_hash |-> parent_hash,
         nonce |-> 0,
         timestamp |-> timestamp,
         transactions |-> signed,
         state_root |-> B256Zero,
         receipts_root |-> B256Zero,
         logs_bloom |-> <<>>,
         gas_used |-> 0,
         gas_limit |-> GasLimit,
         base_fee_per_gas |-> Some(BaseFeePerGas),
         miner |-> miner]

\* Block::new
BlockNew(number, parent_hash, timestamp, transactions, miner) ==
    [number |-> number,
     hash |-> Keccak256(block_preimage(number, parent_hash, timestamp,
                                       transactions, miner)),
     parent_hash |-> parent_hash,
     nonce |-> 0,
     timestamp |-> timestamp,
     transactions |-> transactions,
     state_root |-> B256Zero,
     receipts_root |-> B256Zero,
     logs_bloom |-> <<>>,
     gas_used |-> 0,
     gas_limit |-> GasLimit,
     base_fee_per_gas |-> Some(BaseFeePerGas),
     miner |-> miner]

\* BlockBuilder::new: HashMap::new()
BlocksNew == [n \in {} |-> B256Zero]

\* a lookup under the key after number
get_after(map, number) ==
    IF number + 1 \in DOMAIN map THEN Some(map[number + 1]) ELSE None

\* HashMap::get(&number).cloned()
get(map, number) == IF number \in DOMAIN map THEN Some(map[number]) ELSE None

\* an insert under the key after number
insert_after(map, number, block) ==
    [n \in DOMAIN map \cup {number + 1} |-> IF n = number + 1 THEN block ELSE map[n]]

\* HashMap::insert(number, block)
insert(map, number, block) ==
    [n \in DOMAIN map \cup {number} |-> IF n = number THEN block ELSE map[n]]

\* a parent hash looked up under the counter itself, where no block is yet
parent_hash_of_counter(map, latest_number) ==
    IF latest_number = 0 THEN B256Zero
    ELSE LET parent == IF latest_number \in DOMAIN map
                       THEN Some(map[latest_number]) ELSE None
         IN  IF is_none(parent) THEN B256Zero ELSE unwrap(parent).hash

\* the parent hash create_block takes under the two write locks
parent_hash_of(map, latest_number) ==
    IF latest_number = 0 THEN B256Zero
    ELSE LET parent == get(map, latest_number - 1)
         IN  IF is_none(parent) THEN B256Zero ELSE unwrap(parent).hash

\* a counter that skips a number, one that stands still, one that wraps
incremented_twice(latest_number) == latest_number + 2
not_incremented(latest_number) == latest_number
incremented_mod_2(latest_number) == (latest_number + 1) % 2

\* *latest_number += U256::from(1)
incremented(latest_number) == latest_number + 1

\* the counter itself as the key of the tip, and the key of the first block
tip_of_counter(latest_number) == latest_number
tip_of_genesis(latest_number) == 0

\* the key get_latest_block looks up after reading a counter that is not 0
tip_of(latest_number) == latest_number - 1

\* what create_block does once it holds both write locks, the clock
\* reading now: the map and the counter it leaves, and the block it returns
sealed(map, latest_number, now, transactions, miner) ==
    LET parent_hash == parent_hash_of(map, latest_number)
        block == BlockNew(latest_number, parent_hash, now, transactions, miner)
    IN  [blocks |-> insert(map, latest_number, block),
         latest_block_number |-> incremented(latest_number),
         block |-> block]

\* no task: the value of a write lock nobody holds
NoTask == 0

\* a lock that excludes nobody
lock_always_free(writer) == TRUE

\* a lock no waiter is ever granted
lock_never_free(writer) == FALSE

\* RwLock::write().await and RwLock::read().await return once no writer
\* holds the lock (a read guard is dropped with the statement that took it,
\* so a lock is never seen read-locked)
lock_free(writer) == writer = NoTask

(***************************************************************************)
(* State                                                                   *)
(***************************************************************************)
VARIABLES
    accounts,         \* MemoryState.accounts: HashMap<Address, Account>
    overflow_checks,  \* the build: TRUE panics on u64 overflow, FALSE wraps
    call,             \* the last execute call: None, or Some of its
                      \* transaction, backend behaviour, store before, result
    ledger,           \* the book kept beside the store in SpecLedger: None, or
                      \* Some of the seeded store and the amounts of the
                      \* successful transfers to and from each address
    blocks,               \* BlockBuilder.blocks: HashMap<U256, Block>
    latest_block_number,  \* BlockBuilder.latest_block_number: U256
    blocks_writer,        \* the task holding blocks.write(), or NoTask
    number_writer,        \* the task holding latest_block_number.write()
    tasks,                \* each task's call of the builder: where it is,
                          \* its arguments and locals, what it returned
    returned,             \* the blocks create_block returned, in that order
    seen_number,          \* the largest value get_latest_block_number has
                          \* returned so far
    now                   \* SystemTime::now(), in seconds since the epoch

engine_vars == <<accounts, overflow_checks, call, ledger>>

builder_vars ==
    <<blocks, latest_block_number, blocks_writer, number_writer, tasks,
      returned, seen_number, now>>

vars == <<engine_vars, builder_vars>>

Amounts == 0..U64Max

\* the stores an initializer seeds: update_account(&a, Account::new(a, b))
\* for some of the addresses
SeededStores ==
    UNION {{[a \in S |-> Account(a, b[a])] : b \in [S -> Amounts]} : S \in SUBSET Addr}

\* the unsigned transfers: Tx::new(from, to, amount, None)
Transfers == {Tx(f, t, a, None) : f \in Addr, t \in Addr, a \in Amounts}

\* the transfers that differ from tx in from, in to or in amount alone
Altered(tx) ==
    {m \in Transfers :
        /\ m # tx
        /\ \/ m.to = tx.to /\ m.amount = tx.amount
           \/ m.from = tx.from /\ m.amount = tx.amount
           \/ m.from = tx.from /\ m.to = tx.to}

\* the signature fields tx is submitted with: none, 65 bytes of noise, the
\* signature of any wallet over tx, and the signature a sender made over a
\* transfer that was altered into tx afterwards
SignaturesFor(tx) ==
    {None, Some(MalformedSignature)}
        \cup {Some(sign_transaction(k, tx)) : k \in Secrets}
        \cup UNION {{Some(sign_transaction(k, m)) :
                        m \in {x \in Altered(tx) : x.from = address(k)}} :
                    k \in Secrets}

\* the transactions submitted to the engine
TxInputs ==
    UNION {{Tx(m.from, m.to, m.amount, s) : s \in SignaturesFor(m)} : m \in Transfers}

CallRecord(tx, env, before, result) ==
    [tx |-> tx, env |-> env, before |-> before, result |-> result]

\* the tasks that call the block builder concurrently
Tasks == {1, 2}

\* a task's call: pc is where the task is, op the function it called,
\* number / transactions / miner its arguments, latest_number the counter
\* value get_latest_block read or get_latest_block_number returned, result
\* the Option<Block> or the block the other calls returned; the last
\* three are what had happened when the call started, as far as a claim
\* about op speaks of it: how many blocks create_block had returned, the
\* largest counter value a caller had been given, how many blocks the map
\* held
TaskCall(pc, op, number, transactions, miner) ==
    [pc |-> pc, op |-> op, number |-> number, transactions |-> transactions,
     miner |-> miner, latest_number |-> 0, result |-> None,
     returned_before |-> IF op = "create_block" THEN Len(returned) ELSE 0,
     seen_before |-> IF op \in {"get_block", "get_latest_block_number"}
                     THEN seen_number ELSE 0,
     sealed_before |-> IF op \in {"get_block", "get_latest_block",
                                   "get_latest_block_number"}
                       THEN Cardinality(DOMAIN blocks) ELSE 0]

\* BlockBuilder::new, no task having called it yet
BuilderNew ==
    /\ blocks = BlocksNew
    /\ latest_block_number = 0
    /\ blocks_writer = NoTask
    /\ number_writer = NoTask
    /\ returned = <<>>
    /\ seen_number = 0
    /\ now = 0
    /\ tasks = [t \in Tasks |->
                  [pc |-> "idle", op |-> "none", number |-> 0,
                   transactions |-> <<>>, miner |-> 0, latest_number |-> 0,
                   result |-> None, returned_before |-> 0, seen_before |-> 0,
                   sealed_before |-> 0]]

Init ==
    /\ accounts \in SeededStores
    /\ overflow_checks \in BOOLEAN
    /\ call = None
    /\ ledger = None
    /\ BuilderNew

\* a panic unwinds out of the engine's thread: nothing runs after it
Running == IF is_none(call) THEN TRUE ELSE unwrap(call).result.tag # "panic"

\* Node::execute_tx / VM::execute on the in-memory store
Execute ==
    /\ Running
    /\ \E tx \in TxInputs :
          LET env == MemoryEnv(overflow_checks)
              out == execute(accounts, tx, env)
          IN  /\ accounts' = out.state
              /\ call' = Some(CallRecord(tx, env, accounts, out.result))
    /\ UNCHANGED <<overflow_checks, ledger, builder_vars>>

Next == Execute

Spec == Init /\ [][Next]_vars

(***************************************************************************)
(* SpecPayments: as Spec, the engine fed payments only, that is transfers  *)
(* from one address to another.                                            *)
(***************************************************************************)
Payments == {tx \in TxInputs : tx.from # tx.to}

ExecutePayment ==
    /\ Running
    /\ \E tx \in Payments :
          LET env == MemoryEnv(overflow_checks)
              out == execute(accounts, tx, env)
          IN  /\ accounts' = out.state
              /\ call' = Some(CallRecord(tx, env, accounts, out.result))
    /\ UNCHANGED <<overflow_checks, ledger, builder_vars>>

NextPayments == ExecutePayment

SpecPayments == Init /\ [][NextPayments]_vars

(***************************************************************************)
(* SpecFallible: the engine over a State backend whose update_account may  *)
(* return StateError (crates/state/src/state.rs).                          *)
(***************************************************************************)
\* the transfers signed by their sender's wallet
SignedTransfers ==
    UNION {{Tx(m.from, m.to, m.amount, Some(sign_transaction(k, m))) :
               m \in {x \in Transfers : x.from = address(k)}} :
           k \in Secrets}

FallibleEnv(debit_fails, credit_fails, checks) ==
    [debit_fails |-> debit_fails, credit_fails |-> credit_fails,
     overflow_checks |-> checks]

ExecuteFallible ==
    /\ Running
    /\ \E tx \in SignedTransfers \cup Transfers, debit_fails \in BOOLEAN,
          credit_fails \in BOOLEAN :
          LET env == FallibleEnv(debit_fails, credit_fails, overflow_checks)
              out == execute(accounts, tx, env)
          IN  /\ accounts' = out.state
              /\ call' = Some(CallRecord(tx, env, accounts, out.result))
    /\ UNCHANGED <<overflow_checks, ledger, builder_vars>>

NextFallible == ExecuteFallible

SpecFallible == Init /\ [][NextFallible]_vars

(***************************************************************************)
(* SpecLedger: sequences of at most MaxCalls execute calls on the          *)
(* in-memory store, with a book of what was seeded and transferred.        *)
(***************************************************************************)
MaxCalls == 3

Book(seeded, credited, debited, recipients, calls) ==
    [seeded |-> seeded, credited |-> credited, debited |-> debited,
     recipients |-> recipients, calls |-> calls]

\* the book after a call: a successful transfer is entered, a failed one not
Entered(book, tx, result) ==
    IF result = Ok
    THEN Book(book.seeded,
              [book.credited EXCEPT ![tx.to] = @ + tx.amount],
              [book.debited EXCEPT ![tx.from] = @ + tx.amount],
              book.recipients \cup {tx.to},
              book.calls + 1)
    ELSE Book(book.seeded, book.credited, book.debited, book.recipients,
              book.calls + 1)

InitLedger ==
    /\ accounts \in SeededStores
    /\ overflow_checks \in BOOLEAN
    /\ call = None
    /\ ledger = Some(Book(accounts, [a \in Addr |-> 0], [a \in Addr |-> 0], {}, 0))
    /\ BuilderNew

ExecuteLedger ==
    /\ Running
    /\ unwrap(ledger).calls < MaxCalls
    /\ \E tx \in SignedTransfers :
          LET env == MemoryEnv(overflow_checks)
              out == execute(accounts, tx, env)
          IN  /\ accounts' = out.state
              /\ call' = Some(CallRecord(tx, env, accounts, out.result))
              /\ ledger' = Some(Entered(unwrap(ledger), tx, out.result))
    /\ UNCHANGED <<overflow_checks, builder_vars>>

NextLedger == ExecuteLedger

SpecLedger == InitLedger /\ [][NextLedger]_vars

(***************************************************************************)
(* SpecReplay: one signed payment submitted to the engine again and again, *)
(* at most MaxCalls times.  ledger holds the transaction and how often it  *)
(* was executed.                                                           *)
(***************************************************************************)
Replay(tx, runs) == [tx |-> tx, runs |-> runs]

\* the transfers to another address signed by their sender's wallet
SignedPayments == {tx \in SignedTransfers : tx.from # tx.to}

InitReplay ==
    /\ accounts \in SeededStores
    /\ overflow_checks \in BOOLEAN
    /\ call = None
    /\ \E tx \in SignedPayments : ledger = Some(Replay(tx, 0))
    /\ BuilderNew

ExecuteReplay ==
    /\ Running
    /\ unwrap(ledger).runs < MaxCalls
    /\ LET tx == unwrap(ledger).tx
           env == MemoryEnv(overflow_checks)
           out == execute(accounts, tx, env)
       IN  /\ accounts' = out.state
           /\ call' = Some(CallRecord(tx, env, accounts, out.result))
           /\ ledger' = Some(Replay(tx, unwrap(ledger).runs + 1))
    /\ UNCHANGED <<overflow_checks, builder_vars>>

NextReplay == ExecuteReplay

SpecReplay == InitReplay /\ [][NextReplay]_vars

(***************************************************************************)
(* SpecSupply: sequences of at most MaxCalls execute calls, of signed and  *)
(* of unsigned transfers, on a seeded in-memory store.  ledger holds the   *)
(* seeded store, whether the sum at line 92 has exceeded the u64 range in  *)
(* one of the calls, and the number of calls.                              *)
(***************************************************************************)
Supply(seeded, exceeded, calls) ==
    [seeded |-> seeded, exceeded |-> exceeded, calls |-> calls]

\* to_balance + amount at line 92 exceeds the u64 range: what a build with
\* overflow checks traps
exceeds_u64(store, tx) == execute(store, tx, MemoryEnv(TRUE)).result.tag = "panic"

InitSupply ==
    /\ accounts \in SeededStores
    /\ overflow_checks \in BOOLEAN
    /\ call = None
    /\ ledger = Some(Supply(accounts, FALSE, 0))
    /\ BuilderNew

ExecuteSupply ==
    /\ Running
    /\ unwrap(ledger).calls < MaxCalls
    /\ \E tx \in SignedTransfers \cup Transfers :
          LET env == MemoryEnv(overflow_checks)
              out == execute(accounts, tx, env)
          IN  /\ accounts' = out.state
              /\ call' = Some(CallRecord(tx, env, accounts, out.result))
              /\ ledger' = Some(Supply(unwrap(ledger).seeded,
                                       unwrap(ledger).exceeded \/ exceeds_u64(accounts, tx),
                                       unwrap(ledger).calls + 1))
    /\ UNCHANGED <<overflow_checks, builder_vars>>

NextSupply == ExecuteSupply

SpecSupply == InitSupply /\ [][NextSupply]_vars

(***************************************************************************)
(* The block builder called by the tasks concurrently, a step of a task    *)
(* being what it does between two lock operations.  A task that waits for  *)
(* a lock proceeds whenever the lock is free: the queueing order of        *)
(* tokio's RwLock is not fixed here, so every order it can choose is among *)
(* the behaviours.                                                         *)
(*                                                                         *)
(* SpecSealing: the tasks call create_block while the system clock moves,  *)
(* forwards and backwards.                                                 *)
(* SpecObservers: the tasks call get_block, get_latest_block and           *)
(* get_latest_block_number while they seal empty blocks, the clock         *)
(* standing still.                                                         *)
(***************************************************************************)
\* the transaction lists and miners create_block is called with
TxLists == {<<>>, <<Tx(1, 2, 1, None)>>}
Miners == {3}

\* the clock readings: seconds since the epoch
Clock == 0..MaxClock

\* the system clock advances, or is set back
ClockStep ==
    /\ \E reading \in Clock : reading # now /\ now' = reading
    /\ UNCHANGED <<engine_vars, blocks, latest_block_number, blocks_writer,
                   number_writer, tasks, returned, seen_number>>

InitBuilder ==
    /\ accounts = MemoryStateNew
    /\ overflow_checks = FALSE
    /\ call = None
    /\ ledger = None
    /\ BuilderNew

\* the task is not inside a call
Free(t) == tasks[t].pc \in {"idle", "returned"}

\* the create_block calls made so far: those that returned and those
\* under way
CreatesBegun ==
    Len(returned)
        + Cardinality({t \in Tasks : tasks[t].op = "create_block" /\ ~Free(t)})

\* a task calls create_block(transactions, miner) with one of the lists: it
\* waits at line 84
CallCreateBlockWith(lists) ==
    \E t \in Tasks, transactions \in lists, miner \in Miners :
        /\ Free(t)
        /\ CreatesBegun < MaxBlocks
        /\ tasks' = [tasks EXCEPT ![t] =
                        TaskCall("blocks_write", "create_block", 0, transactions, miner)]
        /\ UNCHANGED <<engine_vars, blocks, latest_block_number, blocks_writer,
                       number_writer, returned, seen_number, now>>

CallCreateBlock == CallCreateBlockWith(TxLists)

\* create_block(Vec::new(), miner), the call of the crate's tests
CallCreateEmptyBlock == CallCreateBlockWith({<<>>})

\* line 84: self.blocks.write().await
AcquireBlocksWrite ==
    \E t \in Tasks :
        /\ tasks[t].pc = "blocks_write"
        /\ lock_free(blocks_writer)
        /\ blocks_writer' = t
        /\ tasks' = [tasks EXCEPT ![t].pc = "number_write"]
        /\ UNCHANGED <<engine_vars, blocks, latest_block_number, number_writer,
                       returned, seen_number, now>>

\* line 85: self.latest_block_number.write().await
AcquireNumberWrite ==
    \E t \in Tasks :
        /\ tasks[t].pc = "number_write"
        /\ lock_free(number_writer)
        /\ number_writer' = t
        /\ tasks' = [tasks EXCEPT ![t].pc = "sealing"]
        /\ UNCHANGED <<engine_vars, blocks, latest_block_number, blocks_writer,
                       returned, seen_number, now>>

\* lines 87-109: the block is built from the counter, the parent's hash and
\* the clock, inserted, the counter incremented
Seal ==
    \E t \in Tasks :
        /\ tasks[t].pc = "sealing"
        /\ LET out == sealed(blocks, latest_block_number, now,
                             tasks[t].transactions, tasks[t].miner)
           IN  /\ blocks' = out.blocks
               /\ latest_block_number' = out.latest_block_number
               /\ tasks' = [tasks EXCEPT ![t].pc = "drop_number",
                                         ![t].result = Some(out.block)]
        /\ UNCHANGED <<engine_vars, blocks_writer, number_writer, returned,
                       seen_number, now>>

\* line 110: the guards are dropped in the reverse order of their
\* declaration, latest_number first
DropNumberWrite ==
    \E t \in Tasks :
        /\ tasks[t].pc = "drop_number"
        /\ number_writer' = NoTask
        /\ tasks' = [tasks EXCEPT ![t].pc = "drop_blocks"]
        /\ UNCHANGED <<engine_vars, blocks, latest_block_number, blocks_writer,
                       returned, seen_number, now>>

\* line 110: blocks is dropped and Ok(block) reaches the caller
DropBlocksWrite ==
    \E t \in Tasks :
        /\ tasks[t].pc = "drop_blocks"
        /\ blocks_writer' = NoTask
        /\ tasks' = [tasks EXCEPT ![t].pc = "returned"]
        /\ returned' = Append(returned, unwrap(tasks[t].result))
        /\ UNCHANGED <<engine_vars, blocks, latest_block_number, number_writer,
                       seen_number, now>>

\* a task calls get_block(number) with one of the numbers: it waits at
\* line 113
CallGetBlockOf(numbers) ==
    \E t \in Tasks, number \in numbers :
        /\ Free(t)
        /\ tasks' = [tasks EXCEPT ![t] =
                        TaskCall("blocks_read", "get_block", number, <<>>, 0)]
        /\ UNCHANGED <<engine_vars, blocks, latest_block_number, blocks_writer,
                       number_writer, returned, seen_number, now>>

CallGetBlock == CallGetBlockOf(0..MaxBlocks)

\* get_block(0), absent until the first block is sealed
CallGetFirstBlock == CallGetBlockOf({0})

\* lines 113-114, of get_block and of the get_block that get_latest_block
\* calls at line 122: blocks.read().await, get(&number).cloned()
ReadBlocks ==
    \E t \in Tasks :
        /\ tasks[t].pc = "blocks_read"
        /\ lock_free(blocks_writer)
        /\ tasks' = [tasks EXCEPT ![t].pc = "returned",
                                  ![t].result = get(blocks, tasks[t].number)]
        /\ UNCHANGED <<engine_vars, blocks, latest_block_number, blocks_writer,
                       number_writer, returned, seen_number, now>>

\* a task calls get_latest_block(): it waits at line 118
CallGetLatestBlock ==
    \E t \in Tasks :
        /\ Free(t)
        /\ tasks' = [tasks EXCEPT ![t] =
                        TaskCall("number_read", "get_latest_block", 0, <<>>, 0)]
        /\ UNCHANGED <<engine_vars, blocks, latest_block_number, blocks_writer,
                       number_writer, returned, seen_number, now>>

\* lines 118-123: the counter is read and its guard dropped; None is
\* returned when it is 0, get_block(latest_number - 1) is called otherwise
ReadLatestNumber ==
    \E t \in Tasks :
        /\ tasks[t].pc = "number_read"
        /\ tasks[t].op = "get_latest_block"
        /\ lock_free(number_writer)
        /\ tasks' = [tasks EXCEPT
                        ![t].latest_number = latest_block_number,
                        ![t].number = IF latest_block_number = 0 THEN 0
                                      ELSE tip_of(latest_block_number),
                        ![t].pc = IF latest_block_number = 0 THEN "returned"
                                  ELSE "blocks_read"]
        /\ UNCHANGED <<engine_vars, blocks, latest_block_number, blocks_writer,
                       number_writer, returned, seen_number, now>>

\* a task calls get_latest_block_number(): it waits at line 127
CallGetLatestBlockNumber ==
    \E t \in Tasks :
        /\ Free(t)
        /\ tasks' = [tasks EXCEPT ![t] =
                        TaskCall("number_read", "get_latest_block_number", 0, <<>>, 0)]
        /\ UNCHANGED <<engine_vars, blocks, latest_block_number, blocks_writer,
                       number_writer, returned, seen_number, now>>

\* line 127: the counter is read and returned
ReturnLatestNumber ==
    \E t \in Tasks :
        /\ tasks[t].pc = "number_read"
        /\ tasks[t].op = "get_latest_block_number"
        /\ lock_free(number_writer)
        /\ tasks' = [tasks EXCEPT ![t].pc = "returned",
                                  ![t].latest_number = latest_block_number]
        /\ seen_number' = IF latest_block_number > seen_number
                          THEN latest_block_number ELSE seen_number
        /\ UNCHANGED <<engine_vars, blocks, latest_block_number, blocks_writer,
                       number_writer, returned, now>>

NextSealing ==
    \/ CallCreateBlock
    \/ AcquireBlocksWrite
    \/ AcquireNumberWrite
    \/ Seal
    \/ DropNumberWrite
    \/ DropBlocksWrite
    \/ ClockStep

SpecSealing == InitBuilder /\ [][NextSealing]_vars

NextObservers ==
    \/ CallCreateEmptyBlock
    \/ AcquireBlocksWrite
    \/ AcquireNumberWrite
    \/ Seal
    \/ DropNumberWrite
    \/ DropBlocksWrite
    \/ CallGetBlock
    \/ ReadBlocks
    \/ CallGetLatestBlock
    \/ ReadLatestNumber
    \/ CallGetLatestBlockNumber
    \/ ReturnLatestNumber

SpecObservers == InitBuilder /\ [][NextObservers]_vars

(***************************************************************************)
(* SpecLookup: the tasks call create_block, with either transaction list,  *)
(* and get_block, the clock standing still.                                *)
(***************************************************************************)
NextLookup ==
    \/ CallCreateBlock
    \/ AcquireBlocksWrite
    \/ AcquireNumberWrite
    \/ Seal
    \/ DropNumberWrite
    \/ DropBlocksWrite
    \/ CallGetBlock
    \/ ReadBlocks

SpecLookup == InitBuilder /\ [][NextLookup]_vars

(***************************************************************************)
(* SpecFair: the tasks make all four calls (create_block with no           *)
(* transactions, get_block of block 0) under a fair scheduler.  A task     *)
(* inside a call is polled again and again, and a lock that is free again  *)
(* and again is granted to each task waiting for it (tokio's RwLock queues *)
(* its waiters first in, first out): strong fairness of each task's steps  *)
(* inside a call.  Nothing obliges a task to make a call.                  *)
(***************************************************************************)
NextCalls ==
    \/ CallCreateEmptyBlock
    \/ AcquireBlocksWrite
    \/ AcquireNumberWrite
    \/ Seal
    \/ DropNumberWrite
    \/ DropBlocksWrite
    \/ CallGetFirstBlock
    \/ ReadBlocks
    \/ CallGetLatestBlock
    \/ ReadLatestNumber
    \/ CallGetLatestBlockNumber
    \/ ReturnLatestNumber

\* the task takes a step inside the call it is in
Progress(t) ==
    /\ ~Free(t)
    /\ NextCalls
    /\ tasks'[t].pc # tasks[t].pc

FairScheduling == \A t \in Tasks : SF_vars(Progress(t))

SpecFair == InitBuilder /\ [][NextCalls]_vars /\ FairScheduling

(***************************************************************************)
(* SpecStore: a MemoryState of its own, as in the crate's tests: callers   *)
(* put and get records.  accounts is the store, call the last call and     *)
(* what it returned, ledger the record last put under each address.        *)
(***************************************************************************)
\* the records a caller may put: the store does not look into them, the
\* address inside need not be the key
Records == {Account(x, b) : x \in Addr, b \in Amounts}

StoreCall(op, key, account, result) ==
    [op |-> op, address |-> key, account |-> account, result |-> result]

InitStore ==
    /\ accounts = MemoryStateNew
    /\ overflow_checks = FALSE
    /\ call = None
    /\ ledger = Some([a \in Addr |-> None])
    /\ BuilderNew

\* update_account(&key, account)
StorePut ==
    \E key \in Addr, account \in Records :
        /\ accounts' = update_account(accounts, key, account)
        /\ call' = Some(StoreCall("update_account", key, Some(account), "Ok"))
        /\ ledger' = Some([unwrap(ledger) EXCEPT ![key] = Some(account)])
        /\ UNCHANGED <<overflow_checks, builder_vars>>

\* get_account(&key)
StoreGet ==
    \E key \in Addr :
        /\ call' = Some(StoreCall("get_account", key, None,
                                  get_account(accounts, key)))
        /\ UNCHANGED <<accounts, overflow_checks, ledger, builder_vars>>

NextStore ==
    \/ StorePut
    \/ StoreGet

SpecStore == InitStore /\ [][NextStore]_vars

(***************************************************************************)
(* SpecCodec: the pure functions of crates/tx applied to a transaction,    *)
(* and Block::new applied to its five arguments.  call holds the           *)
(* transaction drawn and what the last function applied to it returned,    *)
(* ledger the arguments drawn for Block::new and the block it returned.    *)
(***************************************************************************)
CodecCall(op, tx, result) == [op |-> op, tx |-> tx, result |-> result]

\* the transactions handed to Block::new: one transfer unsigned, with a
\* malformed signature, signed by its sender and signed by a stranger, and
\* another transfer
BlockTxs ==
    {Tx(1, 2, 1, None), Tx(1, 2, 1, Some(MalformedSignature)),
     Tx(1, 2, 1, Some(sign_transaction(101, Tx(1, 2, 1, None)))),
     Tx(1, 2, 1, Some(sign_transaction(102, Tx(1, 2, 1, None)))),
     Tx(2, 1, 0, None)}

\* the lists of at most two of them
BlockTxLists ==
    {<<>>} \cup {<<x>> : x \in BlockTxs} \cup {<<x, y>> : x \in BlockTxs, y \in BlockTxs}

\* the parents: none, and the hash of an empty block 0
ParentHashes == {B256Zero, BlockNew(0, B256Zero, 0, <<>>, 3).hash}

BlockCall(op, number, parent_hash, timestamp, transactions, miner, result) ==
    [op |-> op, number |-> number, parent_hash |-> parent_hash,
     timestamp |-> timestamp, transactions |-> transactions, miner |-> miner,
     result |-> result]

InitCodec ==
    /\ accounts = MemoryStateNew
    /\ overflow_checks = FALSE
    /\ \/ /\ \E tx \in TxInputs : call = Some(CodecCall("none", tx, None))
          /\ ledger = None
       \/ /\ call = None
          /\ \E number \in {0, 1}, parent_hash \in ParentHashes, timestamp \in Clock,
                transactions \in BlockTxLists, miner \in {2, 3} :
                ledger = Some(BlockCall("none", number, parent_hash, timestamp,
                                        transactions, miner, None))
    /\ BuilderNew

\* tx.tx_hash()
HashTx ==
    /\ call # None
    /\ call' = Some(CodecCall("tx_hash", unwrap(call).tx, tx_hash(unwrap(call).tx)))
    /\ UNCHANGED <<accounts, overflow_checks, ledger, builder_vars>>

\* tx.to_bytes()
EncodeTx ==
    /\ call # None
    /\ call' = Some(CodecCall("to_bytes", unwrap(call).tx, to_bytes(unwrap(call).tx)))
    /\ UNCHANGED <<accounts, overflow_checks, ledger, builder_vars>>

\* Block::new(number, parent_hash, timestamp, transactions, miner)
NewBlock ==
    /\ ledger # None
    /\ LET in == unwrap(ledger)
       IN  ledger' = Some(BlockCall("Block::new", in.number, in.parent_hash,
                                    in.timestamp, in.transactions, in.miner,
                                    Some(BlockNew(in.number, in.parent_hash,
                                                  in.timestamp, in.transactions,
                                                  in.miner))))
    /\ UNCHANGED <<accounts, overflow_checks, call, builder_vars>>

NextCodec ==
    \/ HashTx
    \/ EncodeTx
    \/ NewBlock

SpecCodec == InitCodec /\ [][NextCodec]_vars

(***************************************************************************)
(* SpecNode: a process that owns an engine over a seeded store and a block *)
(* builder: it executes transactions and seals lists of transactions, in   *)
(* any order.  ledger holds the transactions the engine accepted and those *)
(* it rejected.                                                            *)
(***************************************************************************)
\* a transfer of 1 from address 1 to address 2, unsigned and signed by its
\* sender
UnsignedTransfer == Tx(1, 2, 1, None)
SignedTransfer == Tx(1, 2, 1, Some(sign_transaction(101, UnsignedTransfer)))

NodeTxs == {UnsignedTransfer, SignedTransfer}

NodeTxLists == {<<SignedTransfer>>, <<UnsignedTransfer, SignedTransfer>>}

Seen(accepted, rejected) == [accepted |-> accepted, rejected |-> rejected]

InitNode ==
    /\ accounts = [a \in {1} |-> Account(a, 1)]
    /\ overflow_checks = FALSE
    /\ call = None
    /\ ledger = Some(Seen({}, {}))
    /\ BuilderNew

ExecuteNode ==
    /\ Running
    /\ \E tx \in NodeTxs :
          LET env == MemoryEnv(overflow_checks)
              out == execute(accounts, tx, env)
          IN  /\ accounts' = out.state
              /\ call' = Some(CallRecord(tx, env, accounts, out.result))
              /\ ledger' = Some(IF out.result = Ok
                                THEN Seen(unwrap(ledger).accepted \cup {tx},
                                          unwrap(ledger).rejected)
                                ELSE Seen(unwrap(ledger).accepted,
                                          unwrap(ledger).rejected \cup {tx}))
    /\ UNCHANGED <<overflow_checks, builder_vars>>

CallCreateNodeBlock == CallCreateBlockWith(NodeTxLists)

NextNode ==
    \/ ExecuteNode
    \/ CallCreateNodeBlock
    \/ AcquireBlocksWrite
    \/ AcquireNumberWrite
    \/ Seal
    \/ DropNumberWrite
    \/ DropBlocksWrite

SpecNode == InitNode /\ [][NextNode]_vars

(***************************************************************************)
(* What the claims speak of                                                *)
(***************************************************************************)
Called == ~is_none(call)
TheCall == unwrap(call)
Returned(tag) == Called /\ TheCall.result.tag = tag
Failed == Returned("InvalidTransaction")
FailedWith(fragment) == Failed /\ contains(TheCall.result.reason, fragment)

\* the balance an address holds in a store, an absent record counting as 0
BalanceIn(store, a) == IF a \in DOMAIN store THEN store[a].balance ELSE 0

\* the transfer a transaction states, without its signature
Unsigned(tx) == Tx(tx.from, tx.to, tx.amount, None)

\* tx carries the signature of wallet k over the transfer m
CarriesSignatureOf(tx, k, m) == tx.signature = Some(sign_transaction(k, m))

\* tx is signed by the wallet of its sender over what it states
CorrectlySigned(tx) ==
    \E k \in Secrets : address(k) = tx.from /\ CarriesSignatureOf(tx, k, Unsigned(tx))

\* the five checks of the validation order, in the words of the
\* specification, on the store before the call
CheckHolds(i, store, tx) ==
    CASE i = 1 -> tx.signature # None
      [] i = 2 -> unwrap(tx.signature).signer # NoSigner
      [] i = 3 -> \E k \in Secrets :
                     /\ address(k) = tx.from
                     /\ CarriesSignatureOf(tx, k, Unsigned(tx))
      [] i = 4 -> tx.from \in DOMAIN store
      [] i = 5 -> store[tx.from].balance >= tx.amount

RECURSIVE FirstViolatedFrom(_, _, _)
FirstViolatedFrom(i, store, tx) ==
    IF i > 5 THEN 0
    ELSE IF ~CheckHolds(i, store, tx) THEN i
    ELSE FirstViolatedFrom(i + 1, store, tx)

\* the first check tx violates on store, 0 when it passes all five
FirstViolated(store, tx) == FirstViolatedFrom(1, store, tx)

Validated == Called /\ FirstViolated(TheCall.before, TheCall.tx) = 0

\* the reason the specification gives each check
ReasonOfCheck(i) ==
    CASE i = 1 -> <<"no", "signature">>
      [] i = 2 -> <<"signature", "is", "invalid">>
      [] i = 3 -> <<"signature", "is", "invalid">>
      [] i = 4 -> <<"sender", "account", "does", "not", "exist">>
      [] i = 5 -> <<"does", "not", "have", "enough", "balance">>

\* the recipient's balance when the credit reads it: after the debit
RecipientBalanceAtCredit ==
    LET tx == TheCall.tx IN
    IF tx.to = tx.from THEN BalanceIn(TheCall.before, tx.from) - tx.amount
    ELSE BalanceIn(TheCall.before, tx.to)

(***************************************************************************)
(* C1: Conservation.  Whenever execute(tx) returns ok, the changes of the  *)
(* balances of tx.from and tx.to add up to 0 and the balance of tx.from    *)
(* has gone down by exactly tx.amount (an absent recipient counting as 0). *)
(***************************************************************************)
C1_Conservation ==
    Returned("Ok") =>
        LET tx == TheCall.tx
            dfrom == BalanceIn(accounts, tx.from) - BalanceIn(TheCall.before, tx.from)
            dto == BalanceIn(accounts, tx.to) - BalanceIn(TheCall.before, tx.to)
        IN  dfrom + dto = 0 /\ dfrom = 0 - tx.amount

C3_ValidationOrder ==
    Called =>
        LET i == FirstViolated(TheCall.before, TheCall.tx) IN
        i # 0 => FailedWith(ReasonOfCheck(i))

\* a transaction signed by the wrong wallet, from a sender without a record
\* and hence without balance, failed on its signature
C3_Witness ==
    /\ Called
    /\ \E k \in Secrets :
          /\ address(k) # TheCall.tx.from
          /\ CarriesSignatureOf(TheCall.tx, k, Unsigned(TheCall.tx))
    /\ TheCall.tx.from \notin DOMAIN TheCall.before
    /\ TheCall.tx.amount > 0
    /\ FailedWith(<<"signature", "is", "invalid">>)

(***************************************************************************)
(* C4: Atomicity under a fallible backend.  When the debit write or the    *)
(* credit write is rejected by the backend, execute returns                *)
(* InvalidTransaction and the store is the one before the call.            *)
(***************************************************************************)
C4_Atomicity ==
    (/\ Validated
     /\ \/ TheCall.env.debit_fails
        \/ TheCall.env.credit_fails /\ ~Returned("panic"))
        => Failed /\ accounts = TheCall.before

(***************************************************************************)
(* C5: Overflow guard.  When the recipient has a record and its balance    *)
(* plus tx.amount exceeds the largest u64, execute fails with              *)
(* InvalidTransaction("balance overflow") and the store is unchanged.      *)
(***************************************************************************)
C5_OverflowGuard ==
    (/\ Validated
     /\ TheCall.tx.to \in DOMAIN TheCall.before
     /\ RecipientBalanceAtCredit + TheCall.tx.amount > U64Max)
        => FailedWith(<<"balance", "overflow">>) /\ accounts = TheCall.before

(***************************************************************************)
(* C6: Credit step.  After a successful execute(tx) the recipient has a    *)
(* record: with balance tx.amount when it had none before the call, with   *)
(* its previous balance plus tx.amount otherwise.                          *)
(***************************************************************************)
C6_CreditStep ==
    Returned("Ok") =>
        LET tx == TheCall.tx IN
        /\ tx.to \in DOMAIN accounts
        /\ accounts[tx.to].balance =
              IF tx.to \in DOMAIN TheCall.before
              THEN TheCall.before[tx.to].balance + tx.amount
              ELSE tx.amount

(***************************************************************************)
(* C7: Ledger invariant over traces.  After any sequence of execute calls  *)
(* on a seeded store, the balance of every account is its seeded balance   *)
(* plus the amounts of the successful transfers to it minus those of the   *)
(* successful transfers from it, and an address never seeded and never the *)
(* recipient of a successful transfer has no record.                       *)
(***************************************************************************)
C7_LedgerInvariant ==
    (~is_none(ledger) /\ ~Returned("panic")) =>
        LET book == unwrap(ledger) IN
        \A a \in Addr :
            /\ a \in DOMAIN accounts =>
                  accounts[a].balance =
                      BalanceIn(book.seeded, a) + book.credited[a] - book.debited[a]
            /\ (a \notin DOMAIN book.seeded /\ a \notin book.recipients) =>
                  a \notin DOMAIN accounts

C9_Authorization ==
    (Called /\ ~Returned("panic")) =>
        LET tx == TheCall.tx IN
        /\ \A a \in Addr :
              BalanceIn(accounts, a) < BalanceIn(TheCall.before, a) =>
                  /\ tx.from = a
                  /\ ~is_none(tx.signature)
                  /\ recover_address_from_msg(unwrap(tx.signature), tx_hash(tx)) = Some(a)
        /\ (\E k \in Secrets :
                address(k) # tx.from /\ CarriesSignatureOf(tx, k, Unsigned(tx)))
              => /\ FailedWith(<<"signature", "is", "invalid">>)
                 /\ get_account(accounts, tx.from) = get_account(TheCall.before, tx.from)
                 /\ DOMAIN accounts = DOMAIN TheCall.before

(***************************************************************************)
(* C10: Zero-amount transfer.  A correctly signed transfer of amount 0     *)
(* from an existing sender succeeds whatever the sender's balance, leaves  *)
(* the balances of the sender and of an existing recipient unchanged, and  *)
(* creates the recipient's record with balance 0 if it had none.           *)
(***************************************************************************)
C10_ZeroAmount ==
    (/\ Called
     /\ TheCall.tx.amount = 0
     /\ CorrectlySigned(TheCall.tx)
     /\ TheCall.tx.from \in DOMAIN TheCall.before)
        => LET tx == TheCall.tx IN
           /\ Returned("Ok")
           /\ tx.from \in DOMAIN accounts
           /\ accounts[tx.from].balance = TheCall.before[tx.from].balance
           /\ tx.to \in DOMAIN accounts
           /\ accounts[tx.to].balance =
                 IF tx.to \in DOMAIN TheCall.before
                 THEN TheCall.before[tx.to].balance
                 ELSE 0

\* a sender with balance 0 sent 0 to an address without a record
C10_Witness ==
    /\ Returned("Ok")
    /\ TheCall.tx.amount = 0
    /\ CorrectlySigned(TheCall.tx)
    /\ TheCall.tx.from \in DOMAIN TheCall.before
    /\ TheCall.before[TheCall.tx.from].balance = 0
    /\ TheCall.tx.to \notin DOMAIN TheCall.before
    /\ TheCall.tx.to \in DOMAIN accounts

\* the closed vocabulary of reasons of the specification
Vocabulary ==
    {<<"no", "signature">>,
     <<"signature", "invalid">>,
     <<"sender", "account", "does", "not", "exist">>,
     <<"does", "not", "have", "enough", "balance">>,
     <<"balance", "overflow">>,
     <<"store", "error:">>}

\* the backend rejected the debit write or the credit write of the call
StoreRejected ==
    /\ Validated
    /\ \/ TheCall.env.debit_fails
       \/ TheCall.env.credit_fails /\ ~Returned("panic")

(***************************************************************************)
(* C11: Error vocabulary.  Every reason execute returns carries a phrase   *)
(* of the closed vocabulary, and when the backend rejects the debit write  *)
(* or the credit write the reason carries "store error:" and not the       *)
(* phrase given for an insufficient sender balance.                        *)
(***************************************************************************)
C11_ErrorVocabulary ==
    Failed =>
        /\ \E phrase \in Vocabulary : contains(TheCall.result.reason, phrase)
        /\ StoreRejected =>
              /\ contains(TheCall.result.reason, <<"store", "error:">>)
              /\ ~contains(TheCall.result.reason,
                           <<"does", "not", "have", "enough", "balance">>)

(***************************************************************************)
(* What the claims about the block builder speak of                        *)
(***************************************************************************)
\* the task's last call was of op and has returned
ReturnedFrom(t, op) == tasks[t].pc = "returned" /\ tasks[t].op = op

\* the task holds the write lock of the map: it is in the critical section
\* of create_block
InCriticalSection(t) ==
    tasks[t].pc \in {"number_write", "sealing", "drop_number", "drop_blocks"}

\* the blocks create_block had returned when the task's call started
ReturnedBefore(t) == {returned[i] : i \in 1..tasks[t].returned_before}

(***************************************************************************)
(* C12: Chain continuity.  In every reachable state of the builder, the    *)
(* block stored at key n has number n; block 0 has the parent hash of all  *)
(* zeroes; and for n > 0 the block at n has the hash of the block at n-1   *)
(* as its parent hash.                                                     *)
(***************************************************************************)
C12_ChainContinuity ==
    \A n \in DOMAIN blocks :
        /\ blocks[n].number = n
        /\ n = 0 => blocks[n].parent_hash = B256Zero
        /\ n > 0 => /\ n - 1 \in DOMAIN blocks
                    /\ blocks[n].parent_hash = blocks[n - 1].hash

\* a chain of three blocks sealed at different clock readings
C12_Witness ==
    /\ {0, 1, 2} \subseteq DOMAIN blocks
    /\ blocks[1].timestamp # blocks[0].timestamp
    /\ blocks[2].parent_hash = blocks[1].hash
    /\ blocks[2].parent_hash # blocks[1].parent_hash

(***************************************************************************)
(* C13: Chain-tip shape.  In every reachable state, those between the lock *)
(* operations of concurrent create_block calls included, the keys of the   *)
(* block map are exactly 0 .. latest_block_number - 1.                     *)
(***************************************************************************)
C13_ChainTipShape == DOMAIN blocks = 0..(latest_block_number - 1)

\* one call has sealed the second block and dropped the counter's lock, but
\* still holds the map's, for which a concurrent call waits
C13_Witness ==
    \E t \in Tasks, u \in Tasks :
        /\ tasks[t].pc = "drop_blocks"
        /\ blocks_writer = t
        /\ number_writer = NoTask
        /\ tasks[u].pc = "blocks_write"
        /\ latest_block_number = 2

(***************************************************************************)
(* C14: Serialization of concurrent sealing.  For any interleaving of      *)
(* concurrent create_block calls on one builder, no two calls are in the   *)
(* critical section at once, the blocks returned carry pairwise distinct   *)
(* numbers that form the contiguous range from 0 on, and each returned     *)
(* block has as parent hash the hash of the returned block numbered one    *)
(* less (all zeroes for block 0).                                          *)
(***************************************************************************)
C14_Serialization ==
    /\ \A t \in Tasks, u \in Tasks :
          (InCriticalSection(t) /\ InCriticalSection(u)) => t = u
    /\ \A i \in 1..Len(returned), j \in 1..Len(returned) :
          returned[i].number = returned[j].number => i = j
    /\ {returned[i].number : i \in 1..Len(returned)} = 0..(Len(returned) - 1)
    /\ \A i \in 1..Len(returned) :
          IF returned[i].number = 0
          THEN returned[i].parent_hash = B256Zero
          ELSE \E j \in 1..Len(returned) :
                  /\ returned[j].number = returned[i].number - 1
                  /\ returned[i].parent_hash = returned[j].hash

\* two calls that started before either returned have both returned, one
\* block the parent of the other
C14_Witness ==
    /\ \A t \in Tasks : ReturnedFrom(t, "create_block") /\ tasks[t].returned_before = 0
    /\ Len(returned) = 2
    /\ returned[2].parent_hash = returned[1].hash
    /\ returned[2].number = 1

(***************************************************************************)
(* C15: Tip monotonicity.  No step decreases latest_block_number, and a    *)
(* get_latest_block_number call returns at least every value that a        *)
(* get_latest_block_number call of any task had returned before it         *)
(* started.                                                                *)
(***************************************************************************)
C15_TipMonotonicity ==
    [][/\ latest_block_number' >= latest_block_number
       /\ \A t \in Tasks :
             (tasks'[t].pc = "returned" /\ tasks'[t].op = "get_latest_block_number")
                 => tasks'[t].latest_number >= tasks'[t].seen_before]_vars

\* a call returned 1, the other task's call that started afterwards
\* returned 2 while the first task is sealing a third block
C15_Witness ==
    \E t \in Tasks, u \in Tasks :
        /\ ReturnedFrom(t, "get_latest_block_number")
        /\ tasks[t].seen_before = 1
        /\ tasks[t].latest_number = 2
        /\ tasks[u].op = "create_block"
        /\ tasks[u].pc = "drop_number"

(***************************************************************************)
(* C16: Tip consistency for observers.  The map and the counter are        *)
(* written within one critical section: whenever a reader can take either  *)
(* lock they agree.  So in any interleaving of readers with create_block,  *)
(* get_block(j) finds a block when a get_latest_block_number call had      *)
(* returned some k > j before it started, and get_latest_block does not    *)
(* return absent after it read a counter that is not 0.                    *)
(***************************************************************************)
C16_TipConsistency ==
    /\ (lock_free(blocks_writer) \/ lock_free(number_writer))
          => DOMAIN blocks = 0..(latest_block_number - 1)
    /\ \A t \in Tasks :
          /\ (ReturnedFrom(t, "get_block") /\ tasks[t].number < tasks[t].seen_before)
                => tasks[t].result # None
          /\ (ReturnedFrom(t, "get_latest_block") /\ tasks[t].latest_number # 0)
                => tasks[t].result # None

\* a get_latest_block that read the counter 2 has returned the second
\* block, and a get_block(0) issued after a caller was told 1 has returned
\* the first
C16_Witness ==
    \E t \in Tasks, u \in Tasks :
        /\ ReturnedFrom(t, "get_latest_block")
        /\ tasks[t].latest_number = 2
        /\ tasks[t].result = Some(blocks[1])
        /\ ReturnedFrom(u, "get_block")
        /\ tasks[u].number = 0
        /\ tasks[u].seen_before = 1
        /\ tasks[u].result = Some(blocks[0])

(***************************************************************************)
(* C17: Happens-before between seals.  When create_block returned block A  *)
(* before the create_block call that returned block B started, A is in the *)
(* map B was sealed on, B's number is greater than A's, and when no block  *)
(* was sealed in between, B's number is A's plus 1 and B's parent hash is  *)
(* A's hash.                                                               *)
(***************************************************************************)
C17_HappensBefore ==
    \A t \in Tasks :
        ReturnedFrom(t, "create_block") =>
            LET B == unwrap(tasks[t].result) IN
            \A A \in ReturnedBefore(t) :
                /\ get(blocks, A.number) = Some(A)
                /\ B.number > A.number
                /\ (~\E n \in DOMAIN blocks : A.number < n /\ n < B.number)
                      => B.number = A.number + 1 /\ B.parent_hash = A.hash

\* the third block was returned by a call that started after the first two
\* had been returned: it follows the second directly, the first after
\* another
C17_Witness ==
    \E t \in Tasks :
        /\ ReturnedFrom(t, "create_block")
        /\ tasks[t].returned_before = 2
        /\ unwrap(tasks[t].result).number = 2
        /\ unwrap(tasks[t].result).parent_hash = returned[2].hash
        /\ returned[1].number = 0

(***************************************************************************)
(* C18: Timestamp monotonicity.  For every n > 0 in the chain, the         *)
(* timestamp of block n is greater than or equal to that of block n-1,     *)
(* whatever the clock reads, a clock set back between two create_block     *)
(* calls included.                                                         *)
(***************************************************************************)
C18_TimestampMonotonicity ==
    \A n \in DOMAIN blocks :
        (n > 0 /\ n - 1 \in DOMAIN blocks)
            => blocks[n].timestamp >= blocks[n - 1].timestamp

(***************************************************************************)
(* C19: latest_block.  get_latest_block returns absent only when the map   *)
(* held no block as the call started, and always when no block has been    *)
(* created; otherwise it returns a block of the chain whose number is at   *)
(* least that of the tip as the call started and at most that of the tip   *)
(* as it returned: the chain tip of some moment of the call, and the block *)
(* numbered latest_block_number - 1 when no block is sealed during the     *)
(* call.                                                                   *)
(***************************************************************************)
C19_LatestBlock ==
    \A t \in Tasks :
        ReturnedFrom(t, "get_latest_block") =>
            /\ tasks[t].result = None => tasks[t].sealed_before = 0
            /\ DOMAIN blocks = {} => tasks[t].result = None
            /\ tasks[t].result # None =>
                  LET block == unwrap(tasks[t].result) IN
                  /\ get(blocks, block.number) = Some(block)
                  /\ block.number >= tasks[t].sealed_before - 1
                  /\ block.number <= Cardinality(DOMAIN blocks) - 1

\* a call that started on a chain of one block has returned the second
\* block, which the other task sealed while the call was under way
C19_Witness ==
    \E t \in Tasks, u \in Tasks :
        /\ ReturnedFrom(t, "get_latest_block")
        /\ tasks[t].sealed_before = 1
        /\ 1 \in DOMAIN blocks
        /\ tasks[t].result = Some(blocks[1])
        /\ ReturnedFrom(u, "create_block")
        /\ tasks[u].result = Some(blocks[1])

(***************************************************************************)
(* C20: latest_block_number.  get_latest_block_number returns the number   *)
(* of blocks created: at least the number the map held as the call         *)
(* started and at most the number it holds as the call has returned, hence *)
(* 0 on an empty chain; and when no block was sealed since a               *)
(* get_latest_block call and it started, it is 0 when that call returned   *)
(* absent and otherwise the number of the block that call returned plus 1. *)
(***************************************************************************)
C20_LatestBlockNumber ==
    \A t \in Tasks :
        ReturnedFrom(t, "get_latest_block_number") =>
            /\ tasks[t].latest_number >= tasks[t].sealed_before
            /\ tasks[t].latest_number <= Cardinality(DOMAIN blocks)
            /\ \A u \in Tasks :
                  (/\ ReturnedFrom(u, "get_latest_block")
                   /\ tasks[t].sealed_before = Cardinality(DOMAIN blocks)
                   /\ tasks[u].sealed_before = Cardinality(DOMAIN blocks))
                      => IF tasks[t].latest_number = 0
                         THEN tasks[u].result = None
                         ELSE /\ tasks[u].result # None
                              /\ tasks[t].latest_number = unwrap(tasks[u].result).number + 1

\* on a chain of two blocks one task was told 2 and the other was given
\* block 1
C20_Witness ==
    \E t \in Tasks, u \in Tasks :
        /\ ReturnedFrom(t, "get_latest_block_number")
        /\ tasks[t].sealed_before = 2
        /\ tasks[t].latest_number = 2
        /\ ReturnedFrom(u, "get_latest_block")
        /\ tasks[u].sealed_before = 2
        /\ tasks[u].result # None
        /\ unwrap(tasks[u].result).number = 1
        /\ Cardinality(DOMAIN blocks) = 2

\* the task's get_block call returns in this step
GetBlockReturns(t) ==
    /\ tasks[t].op = "get_block"
    /\ tasks[t].pc = "blocks_read"
    /\ tasks'[t].pc = "returned"

\* the task takes a step of a get_block call: it calls, or reads and returns
GetBlockStep(t) ==
    \/ /\ tasks[t].pc \in {"idle", "returned"}
       /\ tasks'[t].pc = "blocks_read"
       /\ tasks'[t].op = "get_block"
    \/ GetBlockReturns(t)

(***************************************************************************)
(* C21: get_block point lookup.  get_block(n) returns the block that the   *)
(* create_block call which numbered its block n returned, when n is less   *)
(* than latest_block_number, and absent otherwise; it returns a block or   *)
(* absent, never an error; and no step of it changes the map, the counter  *)
(* or the locks.                                                           *)
(***************************************************************************)
C21_GetBlock ==
    [][\A t \in Tasks :
          /\ GetBlockStep(t) =>
                UNCHANGED <<blocks, latest_block_number, blocks_writer, number_writer>>
          /\ GetBlockReturns(t) =>
                LET n == tasks[t].number
                    sealed_as_n == {i \in 1..Len(returned) : returned[i].number = n}
                IN  /\ Len(tasks'[t].result) <= 1
                    /\ IF n < latest_block_number
                       THEN /\ sealed_as_n # {}
                            /\ \A i \in sealed_as_n :
                                  tasks'[t].result = Some(returned[i])
                       ELSE tasks'[t].result = None]_vars

\* on a chain of two blocks, get_block(1) has returned the second block and
\* get_block(2) absent
C21_Witness ==
    \E t \in Tasks, u \in Tasks :
        /\ latest_block_number = 2
        /\ Len(returned) = 2
        /\ ReturnedFrom(t, "get_block")
        /\ tasks[t].number = 1
        /\ tasks[t].result = Some(returned[2])
        /\ ReturnedFrom(u, "get_block")
        /\ tasks[u].number = 2
        /\ tasks[u].result = None

(***************************************************************************)
(* C22: Block immutability.  No step of a call of the builder removes a    *)
(* key of the map or changes the block under it; so every get_block(n)     *)
(* that finds a block returns the block that was inserted under n, the one *)
(* create_block returned, and it is still there.                           *)
(***************************************************************************)
C22_BlockImmutability ==
    [][/\ \A n \in DOMAIN blocks :
             n \in DOMAIN blocks' /\ blocks'[n] = blocks[n]
       /\ \A t \in Tasks :
             (GetBlockReturns(t) /\ tasks'[t].result # None)
                 => /\ tasks[t].number \in DOMAIN blocks'
                    /\ tasks'[t].result = Some(blocks'[tasks[t].number])
                    /\ \A i \in 1..Len(returned) :
                          returned[i].number = tasks[t].number
                              => tasks'[t].result = Some(returned[i])]_vars

\* a get_block(0) called on a chain of three blocks, not all with the same
\* transactions, has returned the first
C22_Witness ==
    \E t \in Tasks :
        /\ Len(returned) = 3
        /\ ReturnedFrom(t, "get_block")
        /\ tasks[t].number = 0
        /\ tasks[t].sealed_before = 3
        /\ tasks[t].result = Some(returned[1])
        /\ returned[2].transactions # returned[1].transactions

(***************************************************************************)
(* C23: Liveness.  Under fair scheduling of the lock grants every call of  *)
(* the block builder eventually returns (the two locks never deadlock),    *)
(* and every create_block that returns returns a block, never an error.    *)
(***************************************************************************)
\* the block a returned create_block carries: the one it sealed, in the map
CreateReturnsBlock(t) ==
    ReturnedFrom(t, "create_block")
        => /\ Len(tasks[t].result) = 1
           /\ unwrap(tasks[t].result).number \in DOMAIN blocks
           /\ blocks[unwrap(tasks[t].result).number] = unwrap(tasks[t].result)

C23_Liveness ==
    /\ \A t \in Tasks : (~Free(t)) ~> (tasks[t].pc = "returned")
    /\ [](\A t \in Tasks : CreateReturnsBlock(t))

\* two create_block calls that were both under way before either returned,
\* so that one waited for the locks the other held, have both returned
C23_Witness ==
    \E t, u \in Tasks :
        /\ t # u
        /\ ReturnedFrom(t, "create_block")
        /\ ReturnedFrom(u, "create_block")
        /\ tasks[t].returned_before = 0
        /\ tasks[u].returned_before = 0
        /\ unwrap(tasks[t].result).number = 0
        /\ unwrap(tasks[u].result).number = 1

(***************************************************************************)
(* C24: Store read-your-write.  In MemoryState a get_account(a) returns    *)
(* the record of the last update_account(a, _), whatever was put under     *)
(* other addresses since, and absent when nothing was ever put under a;    *)
(* get_account never changes the store, and update_account never fails.    *)
(***************************************************************************)
C24_ReadYourWrite ==
    [][LET c == unwrap(call') IN
       /\ call' # None
       /\ c.op = "get_account" =>
              /\ c.result = unwrap(ledger)[c.address]
              /\ accounts' = accounts
       /\ c.op = "update_account" => c.result = "Ok"]_vars

\* address 1 was put, then address 2 twice, 3 never; the get of 1 returns
\* what was put under 1
C24_Witness ==
    /\ call # None
    /\ unwrap(call).op = "get_account"
    /\ unwrap(call).address = 1
    /\ unwrap(call).result = Some(Account(1, 1))
    /\ unwrap(ledger)[2] = Some(Account(3, 0))
    /\ unwrap(ledger)[3] = None
    /\ 2 \in DOMAIN accounts
    /\ 3 \notin DOMAIN accounts

(***************************************************************************)
(* C25: Hash determinism.  tx_hash is a function of (from, to, amount)     *)
(* alone: a transaction with the same three fields has the same hash       *)
(* whatever its signature field holds, and a repeated call returns the     *)
(* same hash.                                                              *)
(***************************************************************************)
\* the transaction of the last call with another signature field
Resigned(signature) ==
    LET tx == unwrap(call).tx IN Tx(tx.from, tx.to, tx.amount, signature)

C25_HashDeterminism ==
    [][(call # None /\ call' # None /\ unwrap(call').op = "tx_hash") =>
          /\ \A signature \in SignaturesFor(Unsigned(unwrap(call').tx)) :
                 tx_hash(Tx(unwrap(call').tx.from, unwrap(call').tx.to,
                            unwrap(call').tx.amount, signature))
                     = unwrap(call').result
          /\ (unwrap(call).op = "tx_hash") => unwrap(call').result = unwrap(call).result]_vars

\* a signed transaction was hashed: the hash is that of the unsigned one
C25_Witness ==
    /\ call # None
    /\ unwrap(call).op = "tx_hash"
    /\ CorrectlySigned(unwrap(call).tx)
    /\ unwrap(call).tx.amount = 1
    /\ unwrap(call).result = tx_hash(Resigned(None))
    /\ unwrap(call).result = tx_hash(Resigned(Some(MalformedSignature)))

(***************************************************************************)
(* C26: Canonical encoding.  to_bytes returns exactly 48 bytes: bytes      *)
(* 0..20 are from, bytes 20..40 are to, bytes 40..48 are amount as a       *)
(* big-endian unsigned integer; the signature contributes nothing.         *)
(***************************************************************************)
\* the digit of weight 256^k of n written to the base 256
RECURSIVE Digit(_, _)
Digit(n, k) == IF k = 0 THEN n % 256 ELSE Digit(n \div 256, k - 1)

C26_CanonicalEncoding ==
    (call # None /\ unwrap(call).op = "to_bytes") =>
        LET tx == unwrap(call).tx
            bytes == unwrap(call).result
        IN  /\ Len(bytes) = 48
            /\ SubSeq(bytes, 1, 20) = to_vec(tx.from)
            /\ SubSeq(bytes, 21, 40) = to_vec(tx.to)
            /\ \A k \in 0..7 : bytes[48 - k] = Digit(tx.amount, k)
            /\ \A signature \in SignaturesFor(Unsigned(tx)) :
                   to_bytes(Resigned(signature)) = bytes

\* a signed transfer of 1 from address 1 to address 2 was encoded
C26_Witness ==
    /\ call # None
    /\ unwrap(call).op = "to_bytes"
    /\ unwrap(call).tx.from = 1
    /\ unwrap(call).tx.to = 2
    /\ unwrap(call).tx.amount = 1
    /\ CorrectlySigned(unwrap(call).tx)
    /\ unwrap(call).result[48] = 1

SameTxHashes(xs, ys) ==
    /\ Len(xs) = Len(ys)
    /\ \A i \in 1..Len(xs) : tx_hash(xs[i]) = tx_hash(ys[i])

C28_BlockHashPreimage ==
    (ledger # None /\ unwrap(ledger).op = "Block::new") =>
        LET in == unwrap(ledger)
            block == unwrap(in.result)
        IN  /\ block.number = in.number
            /\ block.parent_hash = in.parent_hash
            /\ block.timestamp = in.timestamp
            /\ block.miner = in.miner
            /\ block.transactions = in.transactions
            /\ \A others \in BlockTxLists :
                   SameTxHashes(others, in.transactions)
                       => BlockNew(in.number, in.parent_hash, in.timestamp,
                                   others, in.miner).hash = block.hash
            /\ block.state_root = B256Zero
            /\ block.receipts_root = B256Zero
            /\ block.logs_bloom = <<>>
            /\ block.gas_used = 0
            /\ block.gas_limit = 30000000
            /\ block.base_fee_per_gas = Some(1000000000)
            /\ block.nonce = 0

\* block 1 was built on a parent with a signed transfer and an unsigned
\* one; the same block with the first transfer unsigned has its hash
C28_Witness ==
    /\ ledger # None
    /\ unwrap(ledger).op = "Block::new"
    /\ unwrap(ledger).number = 1
    /\ unwrap(ledger).parent_hash # B256Zero
    /\ unwrap(ledger).transactions
          = <<Tx(1, 2, 1, Some(sign_transaction(101, Tx(1, 2, 1, None)))),
              Tx(2, 1, 0, None)>>
    /\ unwrap(unwrap(ledger).result).hash
          = BlockNew(1, unwrap(ledger).parent_hash, unwrap(ledger).timestamp,
                     <<Tx(1, 2, 1, None), Tx(2, 1, 0, None)>>,
                     unwrap(ledger).miner).hash
    /\ unwrap(unwrap(ledger).result).hash
          # BlockNew(1, unwrap(ledger).parent_hash, unwrap(ledger).timestamp,
                     <<Tx(2, 1, 0, None), Tx(1, 2, 1, None)>>,
                     unwrap(ledger).miner).hash

(***************************************************************************)
(* C29: Builder/store independence.  No step of create_block changes the   *)
(* account store or anything else of the engine, and the block it seals is *)
(* built from the counter, the parent, the clock and the list given alone: *)
(* it carries the transactions given, all of them and in their order,      *)
(* unsigned, rejected by the engine, never executed or sealed before as    *)
(* they may be.  No execute changes the block map, the counter or anything *)
(* else of the builder.                                                    *)
(***************************************************************************)
C29_Independence ==
    [][/\ builder_vars' # builder_vars => engine_vars' = engine_vars
       /\ engine_vars' # engine_vars => builder_vars' = builder_vars
       /\ \A t \in Tasks :
             (tasks[t].pc = "sealing" /\ tasks'[t].pc = "drop_number")
                 => /\ tasks'[t].result =
                          Some(BlockNew(latest_block_number,
                                        parent_hash_of(blocks, latest_block_number),
                                        now, tasks[t].transactions, tasks[t].miner))
                    /\ unwrap(tasks'[t].result).transactions = tasks[t].transactions
                    /\ blocks'[latest_block_number] = unwrap(tasks'[t].result)]_vars

\* the engine has rejected the unsigned transfer and never executed the
\* signed one, and was left with the seeded store; block 0 holds the signed
\* transfer and block 1 the unsigned one and the signed one again
C29_Witness ==
    /\ Len(returned) = 2
    /\ returned[1].transactions = <<SignedTransfer>>
    /\ returned[2].transactions = <<UnsignedTransfer, SignedTransfer>>
    /\ call # None
    /\ unwrap(ledger) = Seen({}, {UnsignedTransfer})
    /\ accounts = [a \in {1} |-> Account(a, 1)]
    /\ DOMAIN blocks = {0, 1}

(***************************************************************************)
(* C30: Self-transfer.  For a correctly signed transaction with from = to  *)
(* on an existing account that holds at least the amount, execute returns  *)
(* ok and the balance of the account after the call is its balance before  *)
(* the call.                                                               *)
(***************************************************************************)
SelfTransfer ==
    /\ Called
    /\ TheCall.tx.from = TheCall.tx.to
    /\ CorrectlySigned(TheCall.tx)
    /\ TheCall.tx.from \in DOMAIN TheCall.before
    /\ TheCall.before[TheCall.tx.from].balance >= TheCall.tx.amount

C30_SelfTransfer ==
    SelfTransfer =>
        /\ Returned("Ok")
        /\ TheCall.tx.from \in DOMAIN accounts
        /\ accounts[TheCall.tx.from].balance = TheCall.before[TheCall.tx.from].balance

\* address 1, holding 1, has transferred 1 to itself
C30_Witness ==
    /\ SelfTransfer
    /\ TheCall.tx.from = 1
    /\ TheCall.tx.amount = 1
    /\ TheCall.before[1].balance = 1
    /\ Returned("Ok")
    /\ accounts[1].balance = 1

(***************************************************************************)
(* C31: Total supply.  After any sequence of execute calls, successful or  *)
(* failed, in none of which the recipient's credit exceeded the u64 range, *)
(* the balances of all accounts add up to what the seeded balances add up  *)
(* to, and no balance is negative.                                         *)
(***************************************************************************)
\* the sum of the balances of a store
RECURSIVE TotalOver(_, _)
TotalOver(store, addresses) ==
    IF addresses = {} THEN 0
    ELSE LET a == CHOOSE x \in addresses : TRUE
         IN  store[a].balance + TotalOver(store, addresses \ {a})

TotalSupply(store) == TotalOver(store, DOMAIN store)

C31_TotalSupply ==
    (ledger # None /\ ~unwrap(ledger).exceeded) =>
        /\ TotalSupply(accounts) = TotalSupply(unwrap(ledger).seeded)
        /\ \A a \in DOMAIN accounts : accounts[a].balance >= 0

\* three calls, none exceeding the range: a payment that created the
\* recipient's record, then a failed call, then a payment to a third
\* address; the supply of 2 is spread over three accounts
C31_Witness ==
    /\ ledger # None
    /\ ~unwrap(ledger).exceeded
    /\ unwrap(ledger).calls = 3
    /\ unwrap(ledger).seeded = [a \in {1, 2} |-> Account(a, 1)]
    /\ DOMAIN accounts = {1, 2, 3}
    /\ accounts[1].balance = 0
    /\ accounts[2].balance = 1
    /\ accounts[3].balance = 1
    /\ Failed

(***************************************************************************)
(* C32: Frame of execute.  A successful execute(tx) writes at most the     *)
(* records of tx.from and tx.to, each under its own address and with that  *)
(* address inside; every other address has a record after the call        *)
(* exactly when it had one before, and the same record.                    *)
(***************************************************************************)
C32_Frame ==
    Returned("Ok") =>
        LET tx == TheCall.tx
            written == {tx.from, tx.to}
        IN  /\ \A a \in written :
                   /\ a \in DOMAIN accounts
                   /\ accounts[a].address = a
            /\ DOMAIN accounts = DOMAIN TheCall.before \cup written
            /\ \A a \in DOMAIN accounts \ written : accounts[a] = TheCall.before[a]

\* address 1 has paid 1 to address 2, which had no record; the record of
\* address 3 is as it was
C32_Witness ==
    /\ Returned("Ok")
    /\ TheCall.tx.from = 1
    /\ TheCall.tx.to = 2
    /\ TheCall.tx.amount = 1
    /\ TheCall.before = [a \in {1, 3} |-> Account(a, 1)]
    /\ accounts = [a \in {1, 2, 3} |-> Account(a, IF a = 1 THEN 0 ELSE 1)]

====
